---------------------------- MODULE Spec2Model ----------------------------
(***************************************************************************)
(* The edit-post page (pages/blogposts/edit/[id].tsx): the EditBlogPost    *)
(* component's state, its event handlers and the asynchronous requests     *)
(* they leave in flight.                                                   *)
(*                                                                         *)
(* Text is a sequence of one-character strings.  The string|null message   *)
(* states hold a TLA+ string, Null standing for null.                      *)
(***************************************************************************)
EXTENDS Integers, Sequences, FiniteSets

(***************************************************************************)
(* Bounds of the model.                                                    *)
(***************************************************************************)
\* longest content body typed in SpecEditor
MaxLen == 4
\* longest content body submitted in SpecSubmit
MaxBodyLen == 6
\* largest number of template searches in flight at once in SpecSearch
MaxInflight == 2
\* largest route identifier; the identifier only grows, so it also bounds
\* the number of identifier changes
MaxId == 2
\* largest number of delayed navigations pending at once
MaxTimers == 1

(***************************************************************************)
(* Characters and the two regular-expression classes the page uses.        *)
(***************************************************************************)
Digits == <<"0", "1", "2", "3", "4", "5", "6", "7", "8", "9">>

IsDigit(c) == \E k \in 1..Len(Digits) : Digits[k] = c

Letters ==
  {"a", "b", "c", "d", "e", "f", "g", "h", "i", "j", "k", "l", "m",
   "n", "o", "p", "q", "r", "s", "t", "u", "v", "w", "x", "y", "z",
   "A", "B", "C", "D", "E", "F", "G", "H", "I", "J", "K", "L", "M",
   "N", "O", "P", "Q", "R", "S", "T", "U", "V", "W", "X", "Y", "Z"}

\* the word-character class of the regular expressions
IsWordChar(c) == c \in Letters \/ IsDigit(c) \/ c = "_"

\* the characters the modelled user types: the trigger, a letter, a digit
\* and a character outside the word class
Alphabet == {"#", "a", "1", " "}

RECURSIVE StringsOfLen(_)
StringsOfLen(n) ==
  IF n = 0 THEN {<<>>}
  ELSE {Append(s, c) : s \in StringsOfLen(n - 1), c \in Alphabet}

StringsUpTo(n) == UNION {StringsOfLen(k) : k \in 0..n}

(***************************************************************************)
(* String.prototype.slice with non-negative arguments: both ends are       *)
(* clamped to the length of the string.                                    *)
(***************************************************************************)
Min(a, b) == IF a < b THEN a ELSE b

Slice(s, from, to) == SubSeq(s, Min(from, Len(s)) + 1, Min(to, Len(s)))

SliceFrom(s, from) == SubSeq(s, Min(from, Len(s)) + 1, Len(s))

(***************************************************************************)
(* Number to decimal text (the template literal `#${template.id}`) and     *)
(* decimal text to number (parseInt of a captured digit run).              *)
(***************************************************************************)
RECURSIVE NumberToString(_)
NumberToString(n) ==
  IF n < 10 THEN <<Digits[n + 1]>>
  ELSE Append(NumberToString(n \div 10), Digits[(n % 10) + 1])

DigitValue(c) == (CHOOSE k \in 1..Len(Digits) : Digits[k] = c) - 1

RECURSIVE ParseInt(_)
ParseInt(ds) ==
  IF Len(ds) = 0 THEN 0
  ELSE 10 * ParseInt(SubSeq(ds, 1, Len(ds) - 1)) + DigitValue(ds[Len(ds)])

(***************************************************************************)
(* The greedy runs of word characters and of digits: the index one past    *)
(* the run that starts at index i.                                         *)
(***************************************************************************)
RECURSIVE WordRunEnd(_, _)
WordRunEnd(s, i) ==
  IF i <= Len(s) /\ IsWordChar(s[i]) THEN WordRunEnd(s, i + 1) ELSE i

RECURSIVE DigitRunEnd(_, _)
DigitRunEnd(s, i) ==
  IF i <= Len(s) /\ IsDigit(s[i]) THEN DigitRunEnd(s, i + 1) ELSE i

(***************************************************************************)
(* The patterns of handleContentChange and handleTemplateSelect: '#', a    *)
(* greedy run of word characters, end of text.  The regular-expression     *)
(* engine tries each start index from the left; a start matches when it    *)
(* holds '#' and the run after it reaches the end of the text.  0 stands   *)
(* for no match.                                                           *)
(***************************************************************************)
RECURSIVE TrailingHashFrom(_, _)
TrailingHashFrom(s, i) ==
  IF i > Len(s) THEN 0
  ELSE IF s[i] = "#" /\ WordRunEnd(s, i + 1) = Len(s) + 1 THEN i
  ELSE TrailingHashFrom(s, i + 1)

TrailingHash(s) == TrailingHashFrom(s, 1)

\* match[1], the capture group, when TrailingHash(s) # 0
SearchToken(s) == SubSeq(s, TrailingHash(s) + 1, Len(s))

\* String.prototype.replace with the trailing-hash pattern
ReplaceTrailingHash(s, rep) ==
  IF TrailingHash(s) = 0 THEN s
  ELSE SubSeq(s, 1, TrailingHash(s) - 1) \o rep

(***************************************************************************)
(* extractTemplateIds: every match of '#' followed by one or more digits,  *)
(* left to right, each mapped through parseInt; the scan resumes right     *)
(* after each match.                                                       *)
(***************************************************************************)
RECURSIVE MatchAllIdsFrom(_, _)
MatchAllIdsFrom(s, i) ==
  IF i > Len(s) THEN <<>>
  ELSE IF s[i] = "#" /\ DigitRunEnd(s, i + 1) > i + 1
       THEN <<ParseInt(SubSeq(s, i + 1, DigitRunEnd(s, i + 1) - 1))>>
            \o MatchAllIdsFrom(s, DigitRunEnd(s, i + 1))
  ELSE MatchAllIdsFrom(s, i + 1)

\* the same scan with a pattern of '#' and a single digit
RECURSIVE MatchAllOneDigitFrom(_, _)
MatchAllOneDigitFrom(s, i) ==
  IF i > Len(s) THEN <<>>
  ELSE IF s[i] = "#" /\ DigitRunEnd(s, i + 1) > i + 1
       THEN <<ParseInt(SubSeq(s, i + 1, i + 1))>>
            \o MatchAllOneDigitFrom(s, i + 2)
  ELSE MatchAllOneDigitFrom(s, i + 1)

ExtractOneDigitIds(s) == MatchAllOneDigitFrom(s, 1)

ExtractTemplateIds(s) == MatchAllIdsFrom(s, 1)

(***************************************************************************)
(* Messages.                                                               *)
(***************************************************************************)
Null == "null"

MsgLoginToEdit == "You need to be logged in to edit posts"
MsgLoadFailed == "Failed to load blog post"
MsgAllFields == "All fields are required!"
MsgLoginToUpdate == "You need to log in to update the blog post."
MsgUpdateFailed == "Failed to update blog post."
MsgSuccess == "Blog post updated successfully!"

\* err.response?.data?.error : absent (Null) or a message of the server
ServerErrors == {Null, "Forbidden"}

\* a || b on string|null operands that are never the empty string
OrElse(a, b) == IF a # Null THEN a ELSE b

(***************************************************************************)
(* The API behind the page.                                                *)
(***************************************************************************)
\* the templates the server holds
Catalogue ==
  <<[id |-> 1, title |-> <<"a">>], [id |-> 11, title |-> <<"a", "1">>]>>

IsPrefix(p, s) == Len(p) <= Len(s) /\ SubSeq(s, 1, Len(p)) = p

\* GET /api/codetemplates?title=text : the templates whose title starts
\* with text, in catalogue order
SearchResults(text) ==
  SelectSeq(Catalogue, LAMBDA t : IsPrefix(text, t.title))

\* the posts GET /api/blogposts/{id} may answer with
ServerPosts ==
  {[title |-> <<"a">>, description |-> <<"a">>,
    content |-> <<"#", "1">>, tag |-> <<"a">>],
   [title |-> <<"a">>, description |-> <<"a">>,
    content |-> <<"a">>, tag |-> <<>>]}

\* the status handleUpdatePost takes for success
OK == 200

\* the statuses axios.put resolves with (axios rejects on every status
\* outside 2xx): the success status and another 2xx one
ResolvedStatuses == {OK, 204}

(***************************************************************************)
(* What the modelled user types.                                           *)
(***************************************************************************)
\* values of the title, description and tag inputs
FieldValues == {<<>>, <<"a">>}

\* the (value, selectionStart) pairs the content text area reports in
\* Spec: none of them has a search token before the caret
PlainEdits ==
  {[value |-> <<>>, pos |-> 0],
   [value |-> <<"a">>, pos |-> 1],
   [value |-> <<"#", "1", " ">>, pos |-> 3]}

\* the (value, selectionStart) pairs the content text area reports in
\* SpecSearch
TokenEdits ==
  {[value |-> <<"#">>, pos |-> 1],
   [value |-> <<"#", "a">>, pos |-> 2],
   [value |-> <<"#", "a", "1">>, pos |-> 3],
   [value |-> <<"a", " ">>, pos |-> 2]}

\* the changes one keystroke makes, in SpecEditor: a character typed with
\* the caret at p; Backspace with the caret at p (Delete with the caret at
\* p - 1 reports the same value and selectionStart)
Typed(s, p, c) == SubSeq(s, 1, p) \o <<c>> \o SubSeq(s, p + 1, Len(s))

Erased(s, p) == SubSeq(s, 1, p - 1) \o SubSeq(s, p + 1, Len(s))

(***************************************************************************)
(* State.                                                                  *)
(***************************************************************************)
VARIABLES
  mounted,            \* the page is displayed (no router.push has run)
  id,                 \* router.query.id, 0 for undefined
  accessToken,        \* localStorage holds an "accessToken"
  title, description, content, tag,
  error, success,
  loading,
  matchingTemplates,
  showTemplatePopup,
  cursorPosition,
  initialLoading,
  getInflight,        \* pending GET /api/blogposts/{id}: the ids asked for
  searchInflight,     \* pending template searches, oldest first
  putInflight,        \* pending PUT /api/blogposts/{id}: the request sent
  navTimers,          \* pending setTimeout navigations: the ids to go to
  lastSearch,         \* the searchText of the search issued last
  lastOp              \* the handler that ran last

vars ==
  <<mounted, id, accessToken, title, description, content, tag, error,
    success, loading, matchingTemplates, showTemplatePopup, cursorPosition,
    initialLoading, getInflight, searchInflight, putInflight, navTimers,
    lastSearch, lastOp>>

fields == <<title, description, content, tag>>
messages == <<error, success>>
popup == <<matchingTemplates, showTemplatePopup, cursorPosition>>
requests == <<getInflight, searchInflight, putInflight, lastSearch>>

Op(name, n) == [op |-> name, n |-> n]

RemoveAt(s, i) == SubSeq(s, 1, i - 1) \o SubSeq(s, i + 1, Len(s))

\* !token, on what localStorage.getItem("accessToken") returned
TokenMissingNever(token) == FALSE

TokenMissing(token) == ~token

\* the form is rendered: the component returns the spinner instead while
\* initialLoading holds
FormShown == mounted /\ ~initialLoading

(***************************************************************************)
(* useState initial values; the effect has run once with id undefined.     *)
(***************************************************************************)
Init ==
  /\ mounted = TRUE
  /\ id = 0
  /\ accessToken \in BOOLEAN
  /\ title = <<>> /\ description = <<>> /\ content = <<>> /\ tag = <<>>
  /\ error = Null /\ success = Null
  /\ loading = FALSE
  /\ matchingTemplates = <<>>
  /\ showTemplatePopup = FALSE
  /\ cursorPosition = 0
  /\ initialLoading = TRUE
  /\ getInflight = <<>> /\ searchInflight = <<>> /\ putInflight = <<>>
  /\ navTimers = <<>>
  /\ lastSearch = <<>>
  /\ lastOp = Op("init", 0)

(***************************************************************************)
(* localStorage is shared with the rest of the site: a log-in or log-out   *)
(* elsewhere changes what getItem("accessToken") returns.                  *)
(***************************************************************************)
StorageChange ==
  /\ mounted
  /\ accessToken' = ~accessToken
  /\ lastOp' = Op("storage", 0)
  /\ UNCHANGED <<mounted, id, fields, messages, loading, popup,
                 initialLoading, requests, navTimers>>

(***************************************************************************)
(* useEffect on [id]: fetchBlogPost up to its await.                       *)
(***************************************************************************)
FetchBlogPost(newId) ==
  /\ mounted
  /\ newId \in (id + 1)..MaxId
  /\ id' = newId
  /\ IF TokenMissing(accessToken)
     THEN /\ error' = MsgLoginToEdit
          /\ initialLoading' = FALSE
          /\ UNCHANGED getInflight
     ELSE /\ getInflight' = Append(getInflight, newId)
          /\ UNCHANGED <<error, initialLoading>>
  /\ lastOp' = Op("fetchBlogPost", newId)
  /\ UNCHANGED <<mounted, accessToken, fields, success, loading, popup,
                 searchInflight, putInflight, lastSearch, navTimers>>

\* the await of axios.get resolves; the continuation runs on a page that
\* has been left too, where the state setters change nothing
FetchResolved(i, post) ==
  /\ i \in DOMAIN getInflight
  /\ IF mounted
     THEN /\ title' = post.title
          /\ description' = post.description
          /\ content' = post.content
          /\ tag' = post.tag
          /\ initialLoading' = FALSE
     ELSE UNCHANGED <<fields, initialLoading>>
  /\ getInflight' = RemoveAt(getInflight, i)
  /\ lastOp' = Op("fetchResolved", getInflight[i])
  /\ UNCHANGED <<mounted, id, accessToken, messages, loading, popup,
                 searchInflight, putInflight, lastSearch, navTimers>>

\* the await of axios.get rejects
FetchRejected(i, serverError) ==
  /\ i \in DOMAIN getInflight
  /\ IF mounted
     THEN /\ error' = OrElse(serverError, MsgLoadFailed)
          /\ initialLoading' = FALSE
     ELSE UNCHANGED <<error, initialLoading>>
  /\ getInflight' = RemoveAt(getInflight, i)
  /\ lastOp' = Op("fetchRejected", getInflight[i])
  /\ UNCHANGED <<mounted, id, accessToken, fields, success, loading, popup,
                 searchInflight, putInflight, lastSearch, navTimers>>

(***************************************************************************)
(* The onChange handlers of the title, description and tag inputs.         *)
(***************************************************************************)
SetTitle(v) ==
  /\ FormShown
  /\ title' = v
  /\ lastOp' = Op("setTitle", 0)
  /\ UNCHANGED <<mounted, id, accessToken, description, content, tag,
                 messages, loading, popup, initialLoading, requests,
                 navTimers>>

SetDescription(v) ==
  /\ FormShown
  /\ description' = v
  /\ lastOp' = Op("setDescription", 0)
  /\ UNCHANGED <<mounted, id, accessToken, title, content, tag, messages,
                 loading, popup, initialLoading, requests, navTimers>>

SetTag(v) ==
  /\ FormShown
  /\ tag' = v
  /\ lastOp' = Op("setTag", 0)
  /\ UNCHANGED <<mounted, id, accessToken, title, description, content,
                 messages, loading, popup, initialLoading, requests,
                 navTimers>>

(***************************************************************************)
(* Template autocomplete.                                                  *)
(***************************************************************************)
\* handleTemplateSearch up to its await: the request leaves; the requests
\* already pending stop being the latest
IssueSearch(pending, searchText) ==
  Append([k \in DOMAIN pending |-> [pending[k] EXCEPT !.latest = FALSE]],
         [text |-> searchText, latest |-> TRUE])

\* the text the content handler matches: the text before the caret
BeforeCursor(text, pos) == Slice(text, 0, pos)

\* the handler's decision: "search" (issue a search and show the popup),
\* "keep" (touch neither) or "hide" (hide the popup)
ContentChangeOutcome(newContent, pos) ==
  IF TrailingHash(BeforeCursor(newContent, pos)) # 0
  THEN IF Len(SearchToken(BeforeCursor(newContent, pos))) > 0
       THEN "search" ELSE "keep"
  ELSE "hide"

\* a change event reports a value other than the one displayed, and the
\* caret within it
HandleContentChange(newContent, pos) ==
  /\ FormShown
  /\ newContent # content
  /\ pos \in 0..Len(newContent)
  /\ content' = newContent
  /\ cursorPosition' = pos
  /\ CASE ContentChangeOutcome(newContent, pos) = "search" ->
            /\ searchInflight' =
                 IssueSearch(searchInflight,
                             SearchToken(BeforeCursor(newContent, pos)))
            /\ lastSearch' = SearchToken(BeforeCursor(newContent, pos))
            /\ showTemplatePopup' = TRUE
       [] ContentChangeOutcome(newContent, pos) = "keep" ->
            UNCHANGED <<searchInflight, lastSearch, showTemplatePopup>>
       [] OTHER ->
            /\ showTemplatePopup' = FALSE
            /\ UNCHANGED <<searchInflight, lastSearch>>
  /\ lastOp' = Op("handleContentChange", 0)
  /\ UNCHANGED <<mounted, id, accessToken, title, description, tag,
                 messages, loading, matchingTemplates, initialLoading,
                 getInflight, putInflight, navTimers>>

\* the await of handleTemplateSearch resolves: no check against the
\* request that is the latest
AppliedTemplatesIfLatest(current, request) ==
  IF request.latest THEN SearchResults(request.text) ELSE current

AppliedTemplates(current, request) == SearchResults(request.text)

SearchResolved(i) ==
  /\ i \in DOMAIN searchInflight
  /\ IF mounted
     THEN matchingTemplates' =
            AppliedTemplates(matchingTemplates, searchInflight[i])
     ELSE UNCHANGED matchingTemplates
  /\ searchInflight' = RemoveAt(searchInflight, i)
  /\ lastOp' = Op("searchResolved", IF searchInflight[i].latest THEN 1 ELSE 0)
  /\ UNCHANGED <<mounted, id, accessToken, fields, messages, loading,
                 showTemplatePopup, cursorPosition, initialLoading,
                 getInflight, putInflight, lastSearch, navTimers>>

\* the await of handleTemplateSearch rejects: console.error only
SearchRejected(i) ==
  /\ i \in DOMAIN searchInflight
  /\ searchInflight' = RemoveAt(searchInflight, i)
  /\ lastOp' = Op("searchRejected", IF searchInflight[i].latest THEN 1 ELSE 0)
  /\ UNCHANGED <<mounted, id, accessToken, fields, messages, loading, popup,
                 initialLoading, getInflight, putInflight, lastSearch,
                 navTimers>>

\* the suggestions rendered: the popup is drawn only when the list is
\* non-empty
Suggestions ==
  IF FormShown /\ showTemplatePopup /\ Len(matchingTemplates) > 0
  THEN matchingTemplates ELSE <<>>

SelectedContentLosesRest(text, pos, templateId) ==
  ReplaceTrailingHash(BeforeCursor(text, pos),
                      <<"#">> \o NumberToString(templateId))

SelectedContent(text, pos, templateId) ==
  ReplaceTrailingHash(BeforeCursor(text, pos),
                      <<"#">> \o NumberToString(templateId))
    \o SliceFrom(text, pos)

HandleTemplateSelect(k) ==
  /\ k \in DOMAIN Suggestions
  /\ content' = SelectedContent(content, cursorPosition, Suggestions[k].id)
  /\ showTemplatePopup' = FALSE
  /\ lastOp' = Op("handleTemplateSelect", Suggestions[k].id)
  /\ UNCHANGED <<mounted, id, accessToken, title, description, tag,
                 messages, loading, matchingTemplates, cursorPosition,
                 initialLoading, requests, navTimers>>

(***************************************************************************)
(* Update submission.                                                      *)
(***************************************************************************)
\* !title || !description || !content || !tag
FieldMissingButTag(t, d, c, g) == Len(t) = 0 \/ Len(d) = 0 \/ Len(c) = 0

FieldMissing(t, d, c, g) == Len(t) = 0 \/ Len(d) = 0 \/ Len(c) = 0 \/ Len(g) = 0

\* the PUT of handleUpdatePost
UpdateRequest ==
  [id |-> id, title |-> title, description |-> description,
   content |-> content, tag |-> tag,
   templateIds |-> ExtractTemplateIds(content)]

\* handleUpdatePost up to its await; the button is disabled while loading
HandleUpdatePost ==
  /\ FormShown
  /\ ~loading
  /\ IF FieldMissing(title, description, content, tag)
     THEN /\ error' = MsgAllFields
          /\ UNCHANGED <<success, loading, putInflight>>
     ELSE IF TokenMissing(accessToken)
     THEN /\ error' = MsgLoginToUpdate
          /\ success' = Null
          /\ loading' = FALSE
          /\ UNCHANGED putInflight
     ELSE /\ error' = Null
          /\ success' = Null
          /\ loading' = TRUE
          /\ putInflight' = Append(putInflight, UpdateRequest)
  /\ lastOp' = Op("handleUpdatePost", 0)
  /\ UNCHANGED <<mounted, id, accessToken, fields, popup, initialLoading,
                 getInflight, searchInflight, lastSearch, navTimers>>

\* the branch on response.status
IsSuccess(status) == status = OK

\* the await of axios.put resolves; on a page that has been left the state
\* setters change nothing, and setTimeout is called all the same
UpdateResolved(status) ==
  /\ putInflight # <<>>
  /\ status \in ResolvedStatuses
  /\ IF IsSuccess(status)
     THEN /\ success' = IF mounted THEN MsgSuccess ELSE success
          /\ navTimers' = Append(navTimers, putInflight[1].id)
          /\ UNCHANGED error
     ELSE UNCHANGED <<error, success, navTimers>>
  /\ loading' = IF mounted THEN FALSE ELSE loading
  /\ putInflight' = Tail(putInflight)
  /\ lastOp' = Op("updateResolved", status)
  /\ UNCHANGED <<mounted, id, accessToken, fields, popup, initialLoading,
                 getInflight, searchInflight, lastSearch>>

\* the await of axios.put rejects
UpdateRejected(serverError) ==
  /\ putInflight # <<>>
  /\ error' = IF mounted THEN OrElse(serverError, MsgUpdateFailed) ELSE error
  /\ loading' = IF mounted THEN FALSE ELSE loading
  /\ putInflight' = Tail(putInflight)
  /\ lastOp' = Op("updateRejected", 0)
  /\ UNCHANGED <<mounted, id, accessToken, fields, success, popup,
                 initialLoading, getInflight, searchInflight, lastSearch,
                 navTimers>>

(***************************************************************************)
(* Navigation away: the delayed router.push and the Cancel button.         *)
(***************************************************************************)
NavigationTimer ==
  /\ navTimers # <<>>
  /\ mounted' = FALSE
  /\ navTimers' = Tail(navTimers)
  /\ lastOp' = Op("navigate", navTimers[1])
  /\ UNCHANGED <<id, accessToken, fields, messages, loading, popup,
                 initialLoading, requests>>

Cancel ==
  /\ FormShown
  /\ mounted' = FALSE
  /\ lastOp' = Op("cancel", id)
  /\ UNCHANGED <<id, accessToken, fields, messages, loading, popup,
                 initialLoading, requests, navTimers>>

(***************************************************************************)
(* The caps that keep the pending requests and timers within the bounds:   *)
(* an event that would issue a request beyond them is left out.            *)
(***************************************************************************)
SearchAllowed(newContent, pos, cap) ==
  ContentChangeOutcome(newContent, pos) = "search"
    => Len(searchInflight) < cap

UpdateAllowed ==
  (~FieldMissing(title, description, content, tag) /\ accessToken)
    => Len(navTimers) < MaxTimers

(***************************************************************************)
(* Spec: the life of the page, from its construction to the navigation     *)
(* away, with content edits that trigger no template search.               *)
(***************************************************************************)
Next ==
  \/ \E v \in FieldValues : SetTitle(v)
  \/ \E v \in FieldValues : SetDescription(v)
  \/ \E v \in FieldValues : SetTag(v)
  \/ \E e \in PlainEdits : HandleContentChange(e.value, e.pos)
  \/ UpdateAllowed /\ HandleUpdatePost
  \/ \E status \in ResolvedStatuses : UpdateResolved(status)
  \/ \E e \in ServerErrors : UpdateRejected(e)
  \/ \E i \in 1..MaxId, post \in ServerPosts : FetchResolved(i, post)
  \/ \E i \in 1..MaxId, e \in ServerErrors : FetchRejected(i, e)
  \/ \E newId \in 1..MaxId : FetchBlogPost(newId)
  \/ StorageChange
  \/ NavigationTimer
  \/ Cancel

Spec == Init /\ [][Next]_vars

(***************************************************************************)
(* The page once the post with the given content has been loaded: the      *)
(* state Spec reaches by FetchBlogPost(1) and FetchResolved.               *)
(***************************************************************************)
Loaded(body) ==
  /\ mounted = TRUE
  /\ id = 1
  /\ accessToken = TRUE
  /\ title = <<"a">> /\ description = <<"a">> /\ tag = <<"a">>
  /\ content = body
  /\ error = Null /\ success = Null
  /\ loading = FALSE
  /\ matchingTemplates = <<>>
  /\ showTemplatePopup = FALSE
  /\ cursorPosition = 0
  /\ initialLoading = FALSE
  /\ getInflight = <<>> /\ searchInflight = <<>> /\ putInflight = <<>>
  /\ navTimers = <<>>
  /\ lastSearch = <<>>
  /\ lastOp = Op("fetchResolved", 1)

(***************************************************************************)
(* SpecSearch: the loaded form, the template searches of overlapping       *)
(* content edits and their responses in any order.                         *)
(***************************************************************************)
InitSearch == Loaded(<<"#", "1">>)

NextSearch ==
  \/ \E e \in TokenEdits :
       /\ SearchAllowed(e.value, e.pos, MaxInflight)
       /\ HandleContentChange(e.value, e.pos)
  \/ \E i \in 1..MaxInflight : SearchResolved(i)
  \/ \E i \in 1..MaxInflight : SearchRejected(i)
  \/ \E k \in 1..Len(Catalogue) : HandleTemplateSelect(k)

SpecSearch == InitSearch /\ [][NextSearch]_vars

(***************************************************************************)
(* SpecEditor: the loaded form edited keystroke by keystroke, by a user    *)
(* who types again once the pending search has answered.                   *)
(***************************************************************************)
InitEditor == Loaded(<<"#", "1">>)

NextEditor ==
  \/ \E p \in 0..MaxLen, c \in Alphabet :
       /\ searchInflight = <<>>
       /\ p <= Len(content) /\ Len(content) < MaxLen
       /\ HandleContentChange(Typed(content, p, c), p + 1)
  \/ \E p \in 1..(MaxLen + 3) :
       /\ searchInflight = <<>>
       /\ p <= Len(content)
       /\ HandleContentChange(Erased(content, p), p - 1)
  \/ SearchResolved(1)
  \/ SearchRejected(1)
  \/ \E k \in 1..Len(Catalogue) : HandleTemplateSelect(k)

SpecEditor == InitEditor /\ [][NextEditor]_vars

(***************************************************************************)
(* SpecSubmit: submissions of a loaded post, for every content body the    *)
(* server may have answered the load with.                                 *)
(***************************************************************************)
InitSubmit == \E body \in StringsUpTo(MaxBodyLen) : Loaded(body)

NextSubmit ==
  \/ StorageChange
  \/ UpdateAllowed /\ HandleUpdatePost
  \/ \E status \in ResolvedStatuses : UpdateResolved(status)
  \/ \E e \in ServerErrors : UpdateRejected(e)
  \/ NavigationTimer

SpecSubmit == InitSubmit /\ [][NextSubmit]_vars
(***************************************************************************)
(* Vocabulary of the properties, stated on the text itself and not through *)
(* the operators above.                                                    *)
(***************************************************************************)
DigitChars == {"0", "1", "2", "3", "4", "5", "6", "7", "8", "9"}

WordChars == Letters \cup DigitChars \cup {"_"}

\* the text preceding the caret
Preceding(text, pos) ==
  [k \in 1..(IF pos < Len(text) THEN pos ELSE Len(text)) |-> text[k]]

\* the text from the caret on
Following(text, pos) ==
  [k \in 1..(Len(text) - (IF pos < Len(text) THEN pos ELSE Len(text))) |->
     text[k + (IF pos < Len(text) THEN pos ELSE Len(text))]]

\* the index of the '#' that opens a trailing span of '#' and word
\* characters, 0 when the text ends with no such span
SpanStart(s) ==
  IF \E h \in 1..Len(s) :
       s[h] = "#" /\ \A k \in (h + 1)..Len(s) : s[k] \in WordChars
  THEN CHOOSE h \in 1..Len(s) :
         s[h] = "#" /\ \A k \in (h + 1)..Len(s) : s[k] \in WordChars
  ELSE 0

\* the word characters after that '#'
SpanToken(s) == [k \in 1..(Len(s) - SpanStart(s)) |-> s[k + SpanStart(s)]]

EmptyFieldPresent ==
  title = <<>> \/ description = <<>> \/ content = <<>> \/ tag = <<>>

\* C1: a submission made while one of the four fields is empty sets the
\* error "All fields are required!", issues no request and leaves the
\* loading flag down
C1_ValidationAborts ==
  [][(lastOp'.op = "handleUpdatePost" /\ EmptyFieldPresent)
       => /\ error' = "All fields are required!"
          /\ putInflight' = putInflight
          /\ getInflight' = getInflight
          /\ searchInflight' = searchInflight
          /\ loading' = FALSE]_vars

\* a submission with only the tag empty was refused
C1_Witness ==
  /\ lastOp.op = "handleUpdatePost"
  /\ title # <<>> /\ description # <<>> /\ content # <<>> /\ tag = <<>>
  /\ accessToken
  /\ error = "All fields are required!"
  /\ putInflight = <<>>
  /\ ~loading

\* C2: an update request that resolves with status 200 sets the success
\* message and schedules the navigation to its post; any other end of the
\* request sets an error message and schedules no navigation
C2_TwoOutcomes ==
  [][(putInflight # <<>> /\ putInflight' = <<>>)
       => IF lastOp' = Op("updateResolved", 200)
          THEN /\ success' = "Blog post updated successfully!"
               /\ navTimers' = Append(navTimers, putInflight[1].id)
          ELSE /\ error' # Null
               /\ navTimers' = navTimers]_vars

\* C3: after a content edit, a '#' and one or more word
\* characters before the caret issue one search for the token and show the
\* popup; every other text before the caret issues none and hides it
C3_SearchOrHide ==
  [][lastOp'.op = "handleContentChange"
       => IF SpanStart(Preceding(content', cursorPosition')) # 0
             /\ SpanToken(Preceding(content', cursorPosition')) # <<>>
          THEN /\ Len(searchInflight') = Len(searchInflight) + 1
               /\ searchInflight'[Len(searchInflight')].text =
                    SpanToken(Preceding(content', cursorPosition'))
               /\ showTemplatePopup' = TRUE
          ELSE /\ searchInflight' = searchInflight
               /\ showTemplatePopup' = FALSE]_vars

\* C4: a template search that fails leaves the error message as it was and
\* the page displaying no suggestion
C4_FailureShowsNothing ==
  [][lastOp'.op = "searchRejected"
       => error' = error /\ Suggestions' = <<>>]_vars

\* C5: selecting the suggestion with id N makes the content the text
\* before the recorded caret, its trailing '#' and word characters replaced
\* by '#N', followed by the text after the recorded caret; the popup closes
C5_SelectReplacesSpan ==
  [][lastOp'.op = "handleTemplateSelect"
       => /\ content' =
               (IF SpanStart(Preceding(content, cursorPosition)) = 0
                THEN Preceding(content, cursorPosition)
                ELSE SubSeq(content, 1,
                            SpanStart(Preceding(content, cursorPosition)) - 1)
                       \o <<"#">> \o NumberToString(lastOp'.n))
               \o Following(content, cursorPosition)
          /\ showTemplatePopup' = FALSE]_vars

\* the suggestion 11 was selected with the caret inside the text:
\* " #a " became " #11 "
C5_Witness ==
  /\ lastOp = Op("handleTemplateSelect", 11)
  /\ cursorPosition = 3
  /\ content = <<" ", "#", "1", "1", " ">>
  /\ ~showTemplatePopup

\* the indexes of the '#' that a digit follows
HashDigitStarts(s) ==
  {i \in 1..(Len(s) - 1) : s[i] = "#" /\ s[i + 1] \in DigitChars}

\* the index of the last digit of the digit run that follows index i
RunLast(s, i) ==
  CHOOSE j \in (i + 1)..Len(s) :
    /\ \A k \in (i + 1)..j : s[k] \in DigitChars
    /\ j = Len(s) \/ s[j + 1] \notin DigitChars

RECURSIVE Pow10(_)
Pow10(n) == IF n = 0 THEN 1 ELSE 10 * Pow10(n - 1)

CharValue(c) ==
  CHOOSE v \in 0..9 : <<"0", "1", "2", "3", "4", "5", "6", "7", "8", "9">>[v + 1] = c

\* the number that the digits s[a..b] write
RECURSIVE Written(_, _, _)
Written(s, a, b) ==
  IF a > b THEN 0
  ELSE CharValue(s[a]) * Pow10(b - a) + Written(s, a + 1, b)

\* the numbers of the '#<digits>' occurrences of s, left to right
Occurrences(s) ==
  [n \in 1..Cardinality(HashDigitStarts(s)) |->
     LET i == CHOOSE h \in HashDigitStarts(s) :
                Cardinality({g \in HashDigitStarts(s) : g < h}) = n - 1
     IN Written(s, i + 1, RunLast(s, i))]

\* C6: the templateIds of an update request are the numbers of all the
\* '#<digits>' occurrences of the content at the moment of submission, left
\* to right, duplicates kept
C6_TemplateIdsAreOccurrences ==
  \A k \in DOMAIN putInflight :
    /\ putInflight[k].content = content
    /\ putInflight[k].templateIds = Occurrences(content)

\* a request is in flight whose content names template 1 twice
C6_Witness ==
  /\ putInflight # <<>>
  /\ content = <<"#", "1", " ", "#", "1">>
  /\ putInflight[1].templateIds = <<1, 1>>

\* C7: with no token stored no authenticated request is issued; a load
\* with a defined id sets the logged-in-to-edit error and ends the initial
\* loading; a submission of four filled fields sets the log-in error and
\* leaves the loading flag down
C7_NoTokenNoRequest ==
  [][~accessToken
       => /\ Len(getInflight') <= Len(getInflight)
          /\ Len(putInflight') <= Len(putInflight)
          /\ lastOp'.op = "fetchBlogPost"
               => /\ id' # 0
                  /\ error' = "You need to be logged in to edit posts"
                  /\ initialLoading' = FALSE
          /\ (lastOp'.op = "handleUpdatePost" /\ ~EmptyFieldPresent)
               => /\ error' = "You need to log in to update the blog post."
                  /\ loading' = FALSE]_vars

\* a load and then a submission of four filled fields were made with no
\* token stored: no request left
C7_Witness ==
  /\ ~accessToken
  /\ lastOp.op = "handleUpdatePost"
  /\ ~EmptyFieldPresent
  /\ id # 0
  /\ ~initialLoading
  /\ error = "You need to log in to update the blog post."
  /\ getInflight = <<>>
  /\ putInflight = <<>>
  /\ ~loading

\* C8: a search response is applied whichever request it answers: the
\* matching-template list becomes the results of the request it answers,
\* the latest one or not
C8_LastResponseWins ==
  [][lastOp'.op = "searchResolved"
       => \E i \in DOMAIN searchInflight :
            /\ searchInflight' = RemoveAt(searchInflight, i)
            /\ matchingTemplates' = SearchResults(searchInflight[i].text)]_vars

\* both responses have arrived, the older request's last: the suggestions
\* displayed are not those of the search issued last
C8_Witness ==
  /\ lastOp = Op("searchResolved", 0)
  /\ searchInflight = <<>>
  /\ showTemplatePopup
  /\ Suggestions # <<>>
  /\ Suggestions # SearchResults(lastSearch)

\* C9: the error message and the success message are never both set
C9_NeverBothMessages == ~(error # Null /\ success # Null)

\* C10: after the suggestion with id N is selected, the template ids
\* extracted from the content include N
C10_SelectedIdIsExtracted ==
  lastOp.op = "handleTemplateSelect"
    => \E k \in DOMAIN ExtractTemplateIds(content) :
         ExtractTemplateIds(content)[k] = lastOp.n
=============================================================================
